---- MODULE Spec2Model ----
(***************************************************************************)
(* Period arithmetic of package period: Add (simpleAdd / nonTrivialAdd),   *)
(* RationalScale (exact path), p64Of, normalise64 / rippleUp, the fraction *)
(* reduction passes and the narrowing toPeriod.                            *)
(*                                                                         *)
(* A Period is a record of six int16 fields, an int8 fraction (hundredths) *)
(* and the designator fpart of the field the fraction belongs to.  A       *)
(* period64 is the same with int64 fields and the sign flag neg.           *)
(*                                                                         *)
(* TLC integers are 32 bits wide, while the centi-unit totals of the code  *)
(* are int64 (32767 hours are 11,796,120,000 centi-seconds).  An int64     *)
(* centi-unit total v is therefore held as the pair [w |-> v / 100,        *)
(* f |-> v % 100] (Go's truncating / and %), which is exactly what p64Of   *)
(* reads from it; sums, products and quotients are computed on the pairs   *)
(* and are exact.                                                          *)
(***************************************************************************)
EXTENDS Integers, Sequences, FiniteSets

VARIABLES op, a, b, m, d, c, w, res, err

vars == <<op, a, b, m, d, c, w, res, err>>

----------------------------------------------------------------------------
(* Go integer arithmetic *)

MaxInt16 == 32767

Abs(x) == IF x < 0 THEN -x ELSE x

\* Go's x / y for y > 0: the quotient truncated towards zero
Quo(x, y) == IF x >= 0 THEN x \div y ELSE -((-x) \div y)

\* Go's x % y for y > 0: the remainder has the sign of x
Rem(x, y) == x - y * Quo(x, y)

\* the conversion int16(x) of an int64: wraps modulo 2^16
Int16(x) == ((x + 32768) % 65536) - 32768

----------------------------------------------------------------------------
(* int64 centi-unit totals as pairs w*100 + f *)

\* the int64 value w*100 + f, for any w and f
Centi(w0, f0) ==
    LET w1 == w0 + Quo(f0, 100)
        f1 == Rem(f0, 100)
    IN  IF w1 > 0 /\ f1 < 0 THEN [w |-> w1 - 1, f |-> f1 + 100]
        ELSE IF w1 < 0 /\ f1 > 0 THEN [w |-> w1 + 1, f |-> f1 - 100]
        ELSE [w |-> w1, f |-> f1]

\* x + y
CentiAdd(x, y) == Centi(x.w + y.w, x.f + y.f)

\* -x
CentiNeg(x) == [w |-> -x.w, f |-> -x.f]

\* x >= 0
CentiGE0(x) == x.w >= 0 /\ x.f >= 0

\* x * k
CentiMul(x, k) == Centi(x.w * k, x.f * k)

\* x % k for k > 0 (schoolbook division on the magnitude, sign of x)
CentiRem(x, k) ==
    LET mag == IF CentiGE0(x) THEN x ELSE CentiNeg(x)
        r == (((mag.w % k) * 100) + mag.f) % k
    IN  IF CentiGE0(x) THEN r ELSE -r

\* x / k for k > 0 (schoolbook division on the magnitude, sign of x)
CentiQuo(x, k) ==
    LET mag == IF CentiGE0(x) THEN x ELSE CentiNeg(x)
        q == [w |-> mag.w \div k, f |-> (((mag.w % k) * 100) + mag.f) \div k]
    IN  IF CentiGE0(x) THEN q ELSE CentiNeg(q)

----------------------------------------------------------------------------
(* Period: the public value.  The type, its sign tests and its centi-unit  *)
(* totals live in period.go, which is not among the sources; they follow   *)
(* the specification (sections 3, 4.1, 4.4 and the glossary).              *)

NoFraction == "NoFraction"
Year == "Year"
Month == "Month"
Day == "Day"
Hour == "Hour"
Minute == "Minute"
Second == "Second"

Designators == {Year, Month, Day, Hour, Minute, Second}

Zero ==
    [years |-> 0, months |-> 0, days |-> 0, hours |-> 0, minutes |-> 0,
     seconds |-> 0, fraction |-> 0, fpart |-> NoFraction]

\* any field, or the fraction, is negative
IsNegative(period) ==
    \/ period.years < 0 \/ period.months < 0 \/ period.days < 0
    \/ period.hours < 0 \/ period.minutes < 0 \/ period.seconds < 0
    \/ period.fraction < 0

\* +1, -1, or 0 for the zero period
Sign(period) ==
    IF period = Zero THEN 0 ELSE IF IsNegative(period) THEN -1 ELSE 1

Negate(period) ==
    [years |-> -period.years, months |-> -period.months, days |-> -period.days,
     hours |-> -period.hours, minutes |-> -period.minutes,
     seconds |-> -period.seconds, fraction |-> -period.fraction,
     fpart |-> period.fpart]

\* the magnitude and the sign flag
absNeg(period) ==
    IF IsNegative(period) THEN [p |-> Negate(period), neg |-> TRUE]
    ELSE [p |-> period, neg |-> FALSE]

\* the year-month group in hundredths of a month
centiYM(period) ==
    Centi(period.years * 12 + period.months,
          IF period.fpart = Year THEN period.fraction * 12
          ELSE IF period.fpart = Month THEN period.fraction ELSE 0)

\* the day group in hundredths of a day
centiDays(period) ==
    Centi(period.days, IF period.fpart = Day THEN period.fraction ELSE 0)

\* the hour-minute-second group in hundredths of a second
centiHMS(period) ==
    Centi(period.hours * 3600 + period.minutes * 60 + period.seconds,
          IF period.fpart = Hour THEN period.fraction * 3600
          ELSE IF period.fpart = Minute THEN period.fraction * 60
          ELSE IF period.fpart = Second THEN period.fraction ELSE 0)

\* average month: 30.436875 days = 146097/4800 days = 146097/200 hours
\* (a Gregorian 400-year cycle has 146097 days and 4800 months)
daysPerCycle == 146097
monthsPerCycle == 4800
hoursPerMonthDen == 200

----------------------------------------------------------------------------
(* period64: the working value *)

\* the narrowing of toPeriod: the Period and the names of the overflowing
\* fields (an empty list: no error)
toPeriod(p64) ==
    LET over(n) == CASE n = "years" -> p64.years > MaxInt16
                     [] n = "months" -> p64.months > MaxInt16
                     [] n = "days" -> p64.days > MaxInt16
                     [] n = "hours" -> p64.hours > MaxInt16
                     [] n = "minutes" -> p64.minutes > MaxInt16
                     [] n = "seconds" -> p64.seconds > MaxInt16
                     [] n = "fraction" -> p64.fraction > 99
        f == SelectSeq(<<"years", "months", "days", "hours", "minutes",
                         "seconds", "fraction">>, over)
    IN  IF Len(f) > 0 THEN [p |-> Zero, err |-> f]
        ELSE IF p64.neg
        THEN [p |-> [years |-> Int16(-p64.years), months |-> Int16(-p64.months),
                     days |-> Int16(-p64.days), hours |-> Int16(-p64.hours),
                     minutes |-> Int16(-p64.minutes),
                     seconds |-> Int16(-p64.seconds),
                     fraction |-> -p64.fraction, fpart |-> p64.fpart],
              err |-> <<>>]
        ELSE [p |-> [years |-> Int16(p64.years), months |-> Int16(p64.months),
                     days |-> Int16(p64.days), hours |-> Int16(p64.hours),
                     minutes |-> Int16(p64.minutes),
                     seconds |-> Int16(p64.seconds),
                     fraction |-> p64.fraction, fpart |-> p64.fpart],
              err |-> <<>>]

\* a variant of rippleHMS with the test of the precise flag inverted
rippleHMSFoldsPrecise(p64, precise) ==
    LET hms0 == (p64.hours * 3600) + (p64.minutes * 60) + p64.seconds
        dd == IF hms0 < 0 THEN Quo(hms0, 86400) - 1 ELSE 0
        hms == hms0 - dd * 86400
        hours == Quo(hms, 3600)
        fold == precise \/ hours > MaxInt16
    IN  [p64 EXCEPT !.days = @ + dd + (IF fold THEN Quo(hours, 24) ELSE 0),
                    !.hours = IF fold THEN Abs(Rem(hours, 24)) ELSE hours,
                    !.minutes = Quo(hms, 60) - (hours * 60),
                    !.seconds = Rem(hms, 60)]

\* rippleUp, first part: seconds to minutes to hours, and hours to days
rippleHMS(p64, precise) ==
    LET hms0 == (p64.hours * 3600) + (p64.minutes * 60) + p64.seconds
        dd == IF hms0 < 0 THEN Quo(hms0, 86400) - 1 ELSE 0
        hms == hms0 - dd * 86400
        hours == Quo(hms, 3600)
        fold == ~precise \/ hours > MaxInt16
    IN  [p64 EXCEPT !.days = @ + dd + (IF fold THEN Quo(hours, 24) ELSE 0),
                    !.hours = IF fold THEN Abs(Rem(hours, 24)) ELSE hours,
                    !.minutes = Quo(hms, 60) - (hours * 60),
                    !.seconds = Rem(hms, 60)]

\* rippleUp, the condition of the approximate days-to-months section
needsCollapse(p64) == p64.days > MaxInt16 \/ p64.days < 0

\* rippleUp, the approximate section.  Its float64 arithmetic is computed
\* in exact rationals:
\*   deltaMonthsF = totalHours / 730.485   = totalHours*200 / 146097
\*   daysF        = remMonthsF * 30.436875 = r / 4800,
\*                                           r = totalHours*200 rem 146097
\*   hoursF       = remDays*24 + 1/360000  = (s*1800 + 1) / 360000,
\*                                           s = r rem 4800
\*   remHours*60                           = (hoursF*360000 rem 360000) / 6000
\* and math.Modf truncates towards zero.  The float64 result is the exact
\* one wherever FloatExact (below) holds.
collapseDays(p64) ==
    LET totalHours == (p64.days * 24) + p64.hours
        deltaMonths == Quo(totalHours * hoursPerMonthDen, daysPerCycle)
        r == Rem(totalHours * hoursPerMonthDen, daysPerCycle)
        days == Quo(r, monthsPerCycle)
        s == Rem(r, monthsPerCycle)
        hoursF == s * 1800 + 1
        hours == Quo(hoursF, 360000)
        remHours60 == Quo(Rem(hoursF, 360000), 6000)
    IN  [p64 EXCEPT !.months = @ + deltaMonths,
                    !.days = IF hours >= 24 THEN days + Quo(hours, 24) ELSE days,
                    !.hours = IF hours >= 24 THEN Rem(hours, 24) ELSE hours,
                    !.minutes = @ + remHours60]

\* a variant of carryMonths without the reduction of the months modulo 12
carryMonthsKeepsMonths(p64) ==
    IF p64.months # 0
    THEN [p64 EXCEPT !.years = @ + Quo(p64.months, 12)]
    ELSE p64

\* rippleUp, last part: months to years
carryMonths(p64) ==
    IF p64.months # 0
    THEN [p64 EXCEPT !.years = @ + Quo(p64.months, 12),
                     !.months = Rem(p64.months, 12)]
    ELSE p64

rippleUp(p64, precise) ==
    LET q == rippleHMS(p64, precise)
    IN  carryMonths(IF needsCollapse(q) THEN collapseDays(q) ELSE q)

reduceYearsFraction(p64) ==
    IF p64.fpart = Year /\ Rem(12 * p64.fraction, 100) = 0
    THEN [p64 EXCEPT !.months = @ + Quo(12 * p64.fraction, 100),
                     !.fraction = 0, !.fpart = NoFraction]
    ELSE p64

reduceDaysFraction(p64, precise) ==
    IF ~precise /\ p64.fpart = Day /\ Rem(24 * p64.fraction, 100) = 0
    THEN [p64 EXCEPT !.hours = @ + Quo(24 * p64.fraction, 100),
                     !.fraction = 0, !.fpart = NoFraction]
    ELSE p64

reduceHoursFraction(p64) ==
    IF p64.fpart = Hour /\ Rem(60 * p64.fraction, 100) = 0
    THEN [p64 EXCEPT !.minutes = @ + Quo(60 * p64.fraction, 100),
                     !.fraction = 0, !.fpart = NoFraction]
    ELSE p64

reduceMinutesFraction(p64) ==
    IF p64.fpart = Minute /\ Rem(60 * p64.fraction, 100) = 0
    THEN [p64 EXCEPT !.seconds = @ + Quo(60 * p64.fraction, 100),
                     !.fraction = 0, !.fpart = NoFraction]
    ELSE p64

normalise64(p64, precise) ==
    reduceMinutesFraction(
        reduceHoursFraction(
            reduceDaysFraction(
                reduceYearsFraction(rippleUp(p64, precise)), precise)))

\* a variant of p64Raw without the test of the year-month remainder
p64RawMonthUntested(cym, cd, chms, neg) ==
    LET ymf == cym.f
        df == cd.f
        sf == chms.f
    IN  [years |-> 0, months |-> cym.w, days |-> cd.w,
         hours |-> 0, minutes |-> 0, seconds |-> chms.w,
         fraction |-> IF sf # 0 THEN sf ELSE IF df # 0 THEN df ELSE ymf,
         fpart |-> IF sf # 0 THEN Second ELSE IF df # 0 THEN Day ELSE Month,
         neg |-> neg]

\* the period64 before normalise64: the three remainders are tested in the
\* order year-month, day, hour-minute-second, a later one overwriting
p64Raw(cym, cd, chms, neg) ==
    LET ymf == cym.f
        df == cd.f
        sf == chms.f
    IN  [years |-> 0, months |-> cym.w, days |-> cd.w,
         hours |-> 0, minutes |-> 0, seconds |-> chms.w,
         fraction |-> IF sf # 0 THEN sf ELSE IF df # 0 THEN df ELSE ymf,
         fpart |-> IF sf # 0 THEN Second ELSE IF df # 0 THEN Day
                   ELSE IF ymf # 0 THEN Month ELSE NoFraction,
         neg |-> neg]

p64Of(cym, cd, chms, neg) == normalise64(p64Raw(cym, cd, chms, neg), TRUE)

----------------------------------------------------------------------------
(* Add *)

\* the conversion int8(x) of an int: wraps modulo 2^8
Int8(x) == ((x + 128) % 256) - 128

\* a variant of simpleAdd that keeps the receiver's designator in every branch
simpleAddOwnDesignator(period, that) ==
    LET both == period.fpart # NoFraction /\ that.fpart # NoFraction
        sum == period.fraction + that.fraction
        carry == both /\ (sum > 99 \/ sum < -99)
        one == Int16(Sign(period))
        fraction == IF period.fpart = NoFraction THEN that.fraction
                    ELSE IF that.fpart = NoFraction THEN period.fraction
                    ELSE IF carry THEN Rem(sum, 100) ELSE sum
        fpart == period.fpart
        bumped(field, des) ==
            IF carry /\ fpart = des THEN Int16(field + one) ELSE field
    IN  [years |-> Int16(bumped(period.years, Year) + that.years),
         months |-> Int16(bumped(period.months, Month) + that.months),
         days |-> Int16(bumped(period.days, Day) + that.days),
         hours |-> Int16(bumped(period.hours, Hour) + that.hours),
         minutes |-> Int16(bumped(period.minutes, Minute) + that.minutes),
         seconds |-> Int16(bumped(period.seconds, Second) + that.seconds),
         fraction |-> Int8(fraction),
         fpart |-> IF fraction = 0 THEN NoFraction ELSE fpart]

simpleAdd(period, that) ==
    LET both == period.fpart # NoFraction /\ that.fpart # NoFraction
        sum == period.fraction + that.fraction
        carry == both /\ (sum > 99 \/ sum < -99)
        one == Int16(Sign(period))
        fraction == IF period.fpart = NoFraction THEN that.fraction
                    ELSE IF that.fpart = NoFraction THEN period.fraction
                    ELSE IF carry THEN Rem(sum, 100) ELSE sum
        fpart == IF period.fpart = NoFraction THEN that.fpart ELSE period.fpart
        \* the receiver's field after the carry of one whole unit
        bumped(field, des) ==
            IF carry /\ fpart = des THEN Int16(field + one) ELSE field
    IN  [years |-> Int16(bumped(period.years, Year) + that.years),
         months |-> Int16(bumped(period.months, Month) + that.months),
         days |-> Int16(bumped(period.days, Day) + that.days),
         hours |-> Int16(bumped(period.hours, Hour) + that.hours),
         minutes |-> Int16(bumped(period.minutes, Minute) + that.minutes),
         seconds |-> Int16(bumped(period.seconds, Second) + that.seconds),
         fraction |-> Int8(fraction),
         fpart |-> IF fraction = 0 THEN NoFraction ELSE fpart]

\* the arguments nonTrivialAdd gives to p64Of
nonTrivialArgs(period, that) ==
    LET cym == CentiAdd(centiYM(period), centiYM(that))
        cd == CentiAdd(centiDays(period), centiDays(that))
        chms == CentiAdd(centiHMS(period), centiHMS(that))
    IN  IF CentiGE0(cym) /\ CentiGE0(cd) /\ CentiGE0(chms)
        THEN [cym |-> cym, cd |-> cd, chms |-> chms, neg |-> FALSE]
        ELSE [cym |-> CentiNeg(cym), cd |-> CentiNeg(cd),
              chms |-> CentiNeg(chms), neg |-> TRUE]

\* the period64 that nonTrivialAdd hands to toPeriod
nonTrivialAdd64(period, that) ==
    LET x == nonTrivialArgs(period, that)
    IN  p64Of(x.cym, x.cd, x.chms, x.neg)

\* the error of toPeriod is discarded
nonTrivialAdd(period, that) == toPeriod(nonTrivialAdd64(period, that)).p

\* the condition of the fast path
isSimple(period, that) ==
    /\ \/ period.fpart = that.fpart
       \/ period.fpart = NoFraction
       \/ that.fpart = NoFraction
    /\ Sign(period) = Sign(that)

\* a variant of Add without the fast path
AddGeneralOnly(period, that) == nonTrivialAdd(period, that)

Add(period, that) ==
    IF isSimple(period, that) THEN simpleAdd(period, that)
    ELSE nonTrivialAdd(period, that)

----------------------------------------------------------------------------
(* RationalScale, exact path *)

\* the three products are divisible by d (d > 0)
scaleExact(period, mul, div) ==
    LET ap == absNeg(period).p
    IN  /\ CentiRem(CentiMul(centiYM(ap), mul), div) = 0
        /\ CentiRem(CentiMul(centiDays(ap), mul), div) = 0
        /\ CentiRem(CentiMul(centiHMS(ap), mul), div) = 0

\* the arguments the exact path gives to p64Of
scaleArgs(period, mul, div) ==
    LET an == absNeg(period)
        mcym == CentiMul(centiYM(an.p), mul)
        mcd == CentiMul(centiDays(an.p), mul)
        mchms == CentiMul(centiHMS(an.p), mul)
        scd == CentiQuo(mcd, div)
        days24 == div > mul /\ CentiMul(scd, div) # mcd
        mchms2 == IF days24 THEN CentiMul(mcd, 24) ELSE mchms
    IN  [cym |-> CentiQuo(mcym, div), cd |-> scd,
         chms |-> CentiQuo(mchms2, div), neg |-> an.neg]

\* the period64 that the exact path hands to toPeriod
rationalScale64P64(period, mul, div) ==
    LET x == scaleArgs(period, mul, div)
    IN  p64Of(x.cym, x.cd, x.chms, x.neg)

\* the Period and the error of the exact path
rationalScale64(period, mul, div) == toPeriod(rationalScale64P64(period, mul, div))

----------------------------------------------------------------------------
(* Inputs *)

\* whole fields take the small magnitudes 0..MaxSmall and the int16 maximum
MaxSmall == 1
\* multipliers are drawn from -MaxMul..MaxMul, divisors from 0..MaxDiv
MaxMul == 2
MaxDiv == 2

FieldVals == (0..MaxSmall) \cup {MaxInt16}
MinuteVals == (0..MaxSmall) \cup {30, 45}
FractionVals == {0, 50, 99}

\* the number of non-zero whole fields
Weight(p) ==
    Cardinality({n \in {"years", "months", "days", "hours", "minutes", "seconds"} :
                    p[n] # 0})

\* valid non-negative Periods with at most two non-zero parts
Magnitudes ==
    {p \in [years : FieldVals, months : FieldVals, days : FieldVals,
            hours : FieldVals, minutes : MinuteVals, seconds : FieldVals,
            fraction : FractionVals, fpart : Designators \cup {NoFraction}] :
        /\ (p.fraction = 0) <=> (p.fpart = NoFraction)
        /\ Weight(p) + (IF p.fraction = 0 THEN 0 ELSE 1) <= 2}

\* all six fields at the int16 maximum
MaxPeriod ==
    [years |-> MaxInt16, months |-> MaxInt16, days |-> MaxInt16,
     hours |-> MaxInt16, minutes |-> MaxInt16, seconds |-> MaxInt16,
     fraction |-> 0, fpart |-> NoFraction]

Periods ==
    LET mags == Magnitudes \cup {MaxPeriod}
    IN  mags \cup {Negate(p) : p \in mags}

\* the argument of Add: at most one non-zero part, or MaxPeriod
Arguments ==
    {p \in Periods :
        \/ Weight(p) + (IF p.fraction = 0 THEN 0 ELSE 1) <= 1
        \/ Weight(p) = 6}

\* group totals for p64Of: around the carries and the int16 limit
CymVals ==
    LET ws == {0, 1, 11, 12, 13, MaxInt16 * 12 + 11, (MaxInt16 + 1) * 12}
        ps == {Centi(x, f) : x \in ws, f \in {0, 50}}
    IN  ps \cup {CentiNeg(x) : x \in ps}

CdVals ==
    LET ws == {0, 1, MaxInt16, MaxInt16 + 1}
        ps == {Centi(x, f) : x \in ws, f \in {0, 50}}
    IN  ps \cup {CentiNeg(x) : x \in ps}

ChmsVals ==
    LET ws == {0, 59, 60, 3600, 86399, 86400,
               (MaxInt16 + 1) * 3600 - 1, (MaxInt16 + 1) * 3600}
        ps == {Centi(x, f) : x \in ws, f \in {0, 50}}
    IN  ps \cup {CentiNeg(x) : x \in ps}

----------------------------------------------------------------------------
(* The state machine: one call at a time.                                  *)
(*   op    the call made: "idle", "Add", "RationalScale", "p64Of", "panic" *)
(*   a, b  the receiver and the argument Period                            *)
(*   m, d  the multiplier and the divisor                                  *)
(*   c     the arguments of the call of p64Of made (a list of one          *)
(*         record), empty when none was made                               *)
(*   w     the period64 it returned, which is handed to toPeriod (a list   *)
(*         of one), empty when none                                        *)
(*   res   the Period returned                                             *)
(*   err   the field names of the error returned to the caller             *)

Init ==
    /\ op = "idle"
    /\ a = Zero
    /\ b = Zero
    /\ m = 0
    /\ d = 0
    /\ c = <<>>
    /\ w = <<>>
    /\ res = Zero
    /\ err = <<>>

\* period.Add(that): the error of the general path is not returned
DoAdd ==
    /\ op = "idle"
    /\ \E x \in Periods, y \in Arguments :
        /\ op' = "Add"
        /\ a' = x
        /\ b' = y
        /\ c' = IF isSimple(x, y) THEN <<>> ELSE <<nonTrivialArgs(x, y)>>
        /\ w' = IF isSimple(x, y) THEN <<>> ELSE <<nonTrivialAdd64(x, y)>>
        /\ res' = Add(x, y)
    /\ UNCHANGED <<m, d, err>>

\* period.RationalScale(mul, div), div # 0, on the exact path.  The
\* approximate path rests on NewOf, Normalise and Simplify, which are not
\* among the sources.
DoRationalScale ==
    /\ op = "idle"
    /\ \E x \in Periods, mul \in -MaxMul..MaxMul, div \in 1..MaxDiv :
        /\ scaleExact(x, mul, div)
        /\ op' = "RationalScale"
        /\ a' = x
        /\ m' = mul
        /\ d' = div
        /\ c' = <<scaleArgs(x, mul, div)>>
        /\ w' = <<rationalScale64P64(x, mul, div)>>
        /\ res' = rationalScale64(x, mul, div).p
        /\ err' = rationalScale64(x, mul, div).err
    /\ UNCHANGED b

\* period.RationalScale(mul, 0): mcym % 0 panics
DoScaleByZero ==
    /\ op = "idle"
    /\ \E x \in Periods, mul \in -MaxMul..MaxMul :
        /\ op' = "panic"
        /\ a' = x
        /\ m' = mul
    /\ UNCHANGED <<b, d, c, w, res, err>>

\* p64Of(cym, cd, chms, neg).toPeriod()
DoP64Of ==
    /\ op = "idle"
    /\ \E cym \in CymVals, cd \in CdVals, chms \in ChmsVals, neg \in BOOLEAN :
        /\ op' = "p64Of"
        /\ c' = <<[cym |-> cym, cd |-> cd, chms |-> chms, neg |-> neg]>>
        /\ w' = <<p64Of(cym, cd, chms, neg)>>
        /\ res' = toPeriod(p64Of(cym, cd, chms, neg)).p
        /\ err' = toPeriod(p64Of(cym, cd, chms, neg)).err
    /\ UNCHANGED <<a, b, m, d>>

\* the call has returned; the next one starts afresh
Return ==
    /\ op # "idle"
    /\ op' = "idle"
    /\ a' = Zero
    /\ b' = Zero
    /\ m' = 0
    /\ d' = 0
    /\ c' = <<>>
    /\ w' = <<>>
    /\ res' = Zero
    /\ err' = <<>>

Next == DoAdd \/ DoRationalScale \/ DoScaleByZero \/ DoP64Of \/ Return

Spec == Init /\ [][Next]_vars

----------------------------------------------------------------------------
(* Vocabulary of the properties *)

FieldNames == <<"years", "months", "days", "hours", "minutes", "seconds">>

IsPositive(p) ==
    \/ p.years > 0 \/ p.months > 0 \/ p.days > 0
    \/ p.hours > 0 \/ p.minutes > 0 \/ p.seconds > 0
    \/ p.fraction > 0

\* the sign invariant: never a positive and a negative part together
SameSign(p) == ~(IsPositive(p) /\ IsNegative(p))

\* the single-fraction invariant
SingleFraction(p) ==
    /\ (p.fraction = 0) <=> (p.fpart = NoFraction)
    /\ p.fraction \in -99..99

InInt16(p) == \A i \in 1..6 : p[FieldNames[i]] \in -MaxInt16..MaxInt16

Valid(p) == SameSign(p) /\ SingleFraction(p) /\ InInt16(p)

\* the days and the clock of a Period as one total, a day counted as 24
\* hours (a hundredth of a day is 864 seconds): whole days, seconds of the
\* day and hundredths of a second, the last two never negative
DayClock(p) ==
    LET cd == centiDays(p)
        chms == centiHMS(p)
        secs == chms.w + cd.f * 864 + (chms.f \div 100)
    IN  [days |-> cd.w + (secs \div 86400), secs |-> secs % 86400,
         cs |-> chms.f % 100]

\* the sum of two such totals
DayClockSum(p, q) ==
    LET x == DayClock(p)
        y == DayClock(q)
        cs == x.cs + y.cs
        secs == x.secs + y.secs + (cs \div 100)
    IN  [days |-> x.days + y.days + (secs \div 86400), secs |-> secs % 86400,
         cs |-> cs % 100]

\* some field of the arithmetic sum is beyond the int16 magnitude
SumOverflows(p, q) ==
    \E i \in 1..6 : Abs(p[FieldNames[i]] + q[FieldNames[i]]) > MaxInt16

\* only whole hours, minutes and seconds
ClockOnly(p) ==
    p.years = 0 /\ p.months = 0 /\ p.days = 0 /\ p.fpart = NoFraction

\* the arguments of a call of p64Of are non-negative and leave every field
\* of the normalised result within the int16 magnitude
ArgsInRange(x) ==
    /\ CentiGE0(x.cym) /\ CentiGE0(x.cd) /\ CentiGE0(x.chms)
    /\ Quo(x.cym.w, 12) <= MaxInt16
    /\ x.cd.w <= MaxInt16
    /\ Quo(x.chms.w, 3600) <= MaxInt16

\* the period64 of a call of p64Of as rippleUp's first part leaves it
Rippled(x) == rippleHMS(p64Raw(x.cym, x.cd, x.chms, x.neg), TRUE)

\* two Periods of the same sign with the same year-month total and the same
\* day-and-clock total
SameValue(p, q) ==
    /\ Sign(p) = Sign(q)
    /\ centiYM(p) = centiYM(q)
    /\ DayClock(p) = DayClock(q)

\* the normalised form of a Period fits: the years after the carry from the
\* months, and the days after the fold of an hour count beyond int16
NormalFits(p) ==
    LET ap == absNeg(p).p
        hours == Quo(centiHMS(ap).w, 3600)
    IN  /\ Quo(centiYM(ap).w, 12) <= MaxInt16
        /\ ap.days + (IF hours > MaxInt16 THEN Quo(hours, 24) ELSE 0) <= MaxInt16

----------------------------------------------------------------------------
(* The domain of the exact-rational reading of collapseDays: float64       *)
(* rounding can leave daysF just short of a whole number only when that    *)
(* whole number is reached through a non-zero deltaMonths; for a negative  *)
(* total the truncations then differ.  No call made here is such a call.   *)
FloatExact ==
    c # <<>> =>
        LET q == Rippled(c[1])
            t == ((q.days * 24) + q.hours) * hoursPerMonthDen
        IN  (needsCollapse(q) /\ t < 0 /\ Quo(t, daysPerCycle) # 0)
                => Rem(Rem(t, daysPerCycle), monthsPerCycle) # 0

\* every input is a valid Period
InputsValid == Valid(a) /\ Valid(b)

----------------------------------------------------------------------------
(* Properties *)

\* C1: Add is commutative: for valid Periods a and b, a.Add(b) and b.Add(a)
\* are the same Period (fields, fraction and designator), on the fast and
\* on the general path.
AddCommutes == op = "Add" => res = Add(b, a)

\* C1 witness: a fast-path sum that takes the fraction of the argument
AddCommutesWitness ==
    /\ op = "Add" /\ isSimple(a, b)
    /\ a # Zero /\ a.fpart = NoFraction /\ b.fpart # NoFraction
    /\ res.fpart = b.fpart

\* C2: the Period returned by a.Add(b) has all its non-zero fields and its
\* fraction of one sign (stated for the sums without overflow, so that a
\* violation is not one of wrap-around).
AddKeepsSign == (op = "Add" /\ ~SumOverflows(a, b)) => SameSign(res)

\* C3: every Period produced by Add and by the exact path of RationalScale
\* has fraction = 0 exactly when its designator is NoFraction, and a
\* fraction within -99..99.
FractionInvariant ==
    op \in {"Add", "RationalScale"} => SingleFraction(res)

\* C3 witness: a general-path sum with two non-zero remainders, of which
\* the seconds' one is kept
FractionInvariantWitness ==
    /\ op = "Add" /\ c # <<>>
    /\ c[1].cd.f # 0 /\ c[1].chms.f # 0
    /\ res.fpart = Second /\ res.fraction # 0

\* C4: when a field of the arithmetic sum exceeds 32767, Add surfaces an
\* error, or else the Period it returns still has the value of the sum.
AddSurfacesOverflow ==
    (op = "Add" /\ SumOverflows(a, b)) =>
        \/ err # <<>>
        \/ /\ centiYM(res) = CentiAdd(centiYM(a), centiYM(b))
           /\ DayClock(res) = DayClockSum(a, b)

\* C5: toPeriod reports exactly the fields whose magnitude exceeds 32767
\* (the fraction: 99) together with the zero Period, and when it reports
\* none, every field of the Period is the signed 64-bit field.
NarrowingDetectsOverflow ==
    w # <<>> =>
        LET p64 == w[1]
            t == toPeriod(p64)
            big(n) == Abs(p64[n]) > (IF n = "fraction" THEN 99 ELSE MaxInt16)
            signed(x) == IF p64.neg THEN -x ELSE x
        IN  /\ t.err = SelectSeq(FieldNames \o <<"fraction">>, big)
            /\ t.err # <<>> => t.p = Zero
            /\ t.err = <<>> =>
                /\ \A i \in 1..6 : t.p[FieldNames[i]] = signed(p64[FieldNames[i]])
                /\ t.p.fraction = signed(p64.fraction)

\* C6: when the sum is within range (no field sum beyond 32767, no more
\* than 32767 hours in the clock total, no overflow found by toPeriod), the
\* result of Add has, in every group, the total of the operands' totals.
AddKeepsTotals ==
    (/\ op = "Add" /\ ~SumOverflows(a, b)
     /\ Abs(Quo(CentiAdd(centiHMS(a), centiHMS(b)).w, 3600)) <= MaxInt16
     /\ w # <<>> => toPeriod(w[1]).err = <<>>) =>
        /\ centiYM(res) = CentiAdd(centiYM(a), centiYM(b))
        /\ centiDays(res) = CentiAdd(centiDays(a), centiDays(b))
        /\ centiHMS(res) = CentiAdd(centiHMS(a), centiHMS(b))

\* C7 as stated: for two same-sign Periods of whole hours, minutes and
\* seconds, Add carries into the next larger unit: the minutes and the
\* seconds of the sum are within 0..59 in magnitude.
AddRipplesCarry ==
    (/\ op = "Add" /\ ClockOnly(a) /\ ClockOnly(b)
     /\ Sign(a) = Sign(b) /\ ~SumOverflows(a, b)) =>
        /\ Abs(res.minutes) <= 59 /\ Abs(res.seconds) <= 59
        /\ centiHMS(res) = CentiAdd(centiHMS(a), centiHMS(b))

\* C7 amended: for two Periods of equal Sign() made of whole hours, minutes
\* and seconds, Add returns the field-wise int16 sums, with no carry from
\* one unit into the next.
AddIsFieldwise ==
    (op = "Add" /\ ClockOnly(a) /\ ClockOnly(b) /\ Sign(a) = Sign(b)) =>
        res = [Zero EXCEPT !.hours = Int16(a.hours + b.hours),
                           !.minutes = Int16(a.minutes + b.minutes),
                           !.seconds = Int16(a.seconds + b.seconds)]

\* C7 witness: 1 hour 45 minutes plus 30 minutes is 1 hour 75 minutes
AddIsFieldwiseWitness ==
    /\ op = "Add"
    /\ a = [Zero EXCEPT !.hours = 1, !.minutes = 45]
    /\ b = [Zero EXCEPT !.minutes = 30]
    /\ res = [Zero EXCEPT !.hours = 1, !.minutes = 75]

\* C8 as stated: p.RationalScale(1, 1) returns no error and a Period of
\* the same sign, year-month total and day-and-clock total as p.
ScaleIdentity ==
    (op = "RationalScale" /\ m = 1 /\ d = 1) =>
        err = <<>> /\ SameValue(res, a)

\* C8 amended: the same, for a Period whose normalised form fits (at most
\* 32767 years after the carry from the months, at most 32767 days after
\* the fold of an hour count above 32767).
ScaleIdentityInRange ==
    (op = "RationalScale" /\ m = 1 /\ d = 1 /\ NormalFits(a)) =>
        err = <<>> /\ SameValue(res, a)

\* C8 witness: a fraction of a year that scaling by 1/1 rewrites as whole
\* months
ScaleIdentityWitness ==
    /\ op = "RationalScale" /\ m = 1 /\ d = 1 /\ NormalFits(a)
    /\ a.fpart = Year /\ res.fpart = NoFraction
    /\ res.months # a.months /\ err = <<>>

\* C9: when p.RationalScale(m, d) succeeds on the exact path for m > 0,
\* p.RationalScale(-m, d) succeeds and returns its negation.
ScaleNegates ==
    (op = "RationalScale" /\ m > 0 /\ a # Zero /\ err = <<>>) =>
        rationalScale64(a, -m, d) = [p |-> Negate(res), err |-> <<>>]

\* C10: for non-negative group totals that leave every field within
\* 32767, p64Of returns non-negative fields with months in 0..11, minutes
\* and seconds in 0..59, keeps the three totals, and does not run the
\* approximate days-to-months section.
P64OfCanonical ==
    (c # <<>> /\ ArgsInRange(c[1])) =>
        LET p64 == w[1]
        IN  /\ \A i \in 1..6 : p64[FieldNames[i]] >= 0
            /\ p64.months \in 0..11
            /\ p64.minutes \in 0..59
            /\ p64.seconds \in 0..59
            /\ p64.years * 12 + p64.months = c[1].cym.w
            /\ p64.days = c[1].cd.w
            /\ p64.hours * 3600 + p64.minutes * 60 + p64.seconds = c[1].chms.w
            /\ ~needsCollapse(Rippled(c[1]))

\* C10 witness: the largest day and hour counts, with carries in every unit
P64OfCanonicalWitness ==
    /\ op = "p64Of" /\ ArgsInRange(c[1])
    /\ c[1].cd.w = MaxInt16
    /\ w[1].hours = MaxInt16 /\ w[1].minutes = 59 /\ w[1].seconds = 59
    /\ w[1].years = MaxInt16 /\ w[1].months = 11

====
